---- MODULE Spec2Model ----
(***************************************************************************)
(* Model of deriv_webbot.py: the per-trade contract lifecycle              *)
(* (trade_thread), the batch coordinator (run_bulk_batch), the continuous  *)
(* runner (continuous_runner), the locked result aggregator                *)
(* (add_transaction) and the Start / Stop commands of main_ui.             *)
(*                                                                         *)
(* Money amounts are integers (whole units); the debug log, the theme and  *)
(* the entry / exit tick strings of a record are display only and are not  *)
(* part of the state.                                                      *)
(***************************************************************************)
EXTENDS Integers, Sequences, FiniteSets, TLC

\* ------------------------------------------------------------------ bounds
\* trades per batch (the source runs range(1, 11): 10 per batch) when one
\* batch is followed on its own, and when the operator's commands are
NumTrades == 2
RunTrades == 1
\* batches started over all runners
MaxBatches == 2
\* Start commands issued by the operator
MaxStarts == 2
\* messages one wait loop receives before its time limit is over
MaxMsgs == 2

\* stake values the operator can enter (number_input, min 0.35)
Stakes == {1}

\* ------------------------------------------------------------- identities
\* A thread of control: trade thread i of batch b, a runner thread, the
\* script thread of the presentation layer.
TradeId(b, i) == <<"trade", b, i>>
RunnerId(r) == <<"runner", r, 0>>
UiId == <<"ui", 0, 0>>
NoOne == <<"none", 0, 0>>

TradeIds == {TradeId(b, i) : b \in 1..MaxBatches, i \in 1..NumTrades}
RunnerIds == {RunnerId(r) : r \in 1..MaxStarts}
Procs == TradeIds \cup RunnerIds \cup {UiId}

VARIABLES
    running,        \* st.session_state.running
    transactions,   \* st.session_state.transactions
    stats,          \* st.session_state.stats
    lock,           \* st.session_state.lock: the thread holding it, or NoOne
    thr,            \* trade threads: locals of trade_thread
    rn,             \* runner threads: locals of run_bulk_batch / continuous_runner
    ui,             \* the script thread of main_ui
    cs,             \* position of each thread inside add_transaction
    tr,             \* argument of each thread's add_transaction call
    nStarts,        \* runner threads created so far
    nBatches,       \* batches started so far
    hist            \* history: what each thread appended, what the operator did

vars == <<running, transactions, stats, lock, thr, rn, ui, cs, tr,
          nStarts, nBatches, hist>>

\* ---------------------------------------------------------------- records
\* One entry of the transaction log.  kind / b identify the record (the
\* source tells markers from trades by the text of trade_no; b is the batch
\* the record belongs to, 0 for the runner's Stopped marker).
Record(kind, no, b, stake, payout, pl, status) ==
    [kind |-> kind, trade_no |-> no, b |-> b, stake |-> stake,
     payout |-> payout, pl |-> pl, status |-> status]

NoRecord == Record("none", 0, 0, 0, 0, 0, "-")

ZeroStats == [stake_total |-> 0, payout_total |-> 0, wins |-> 0, losses |-> 0,
              profit |-> 0]

\* locals of trade_thread at its start (lines 139-145; payout, pl and status
\* are written once, into the final record, see T_Settle).  sent, path,
\* auth, how and heard are history: the requests sent on the connection, the
\* lifecycle states entered, whether the authorize response was an error,
\* the step that decided the outcome, and the messages received in that step
FreshTrade ==
    [pc |-> "idle", ws |-> "none", contract_id |-> 0, stake |-> 0,
     sent |-> <<>>, path |-> <<>>, auth |-> "-", how |-> "-", heard |-> <<>>,
     acks |-> <<>>]

\* locals of a runner thread: the stake it was started with, whether it
\* runs continuous_runner (batch_no, line 344) or one run_bulk_batch, the
\* number n of trades of a batch (10 in the source, line 331), the batch b
\* in flight and the index i of its for loops
FreshRunner ==
    [pc |-> "idle", continuous |-> FALSE, stake |-> 0, n |-> 0, b |-> 0, i |-> 1,
     batch_no |-> 0]

\* the script thread between two commands; continuous and stake are the
\* form inputs of the Start being carried out
IdleUi == [pc |-> "idle", continuous |-> FALSE, stake |-> 0, n |-> 0]

\* history: how many records each trade thread has appended (the log itself
\* is cleared by Start), how many records were appended since the log was
\* last cleared, and for each runner whether Stop was pressed while it was
\* active
NoHistory ==
    [appended |-> [t \in TradeIds |-> 0],
     logged |-> 0,
     stopped |-> [r \in RunnerIds |-> FALSE]]

\* ------------------------------------------------------- add_transaction
\* Entering add_transaction(rec) from thread p (line 95): the thread is next
\* at "with st.session_state.lock" and goes on at its own pc afterwards.
CallAdd(p, rec) ==
    /\ tr' = [tr EXCEPT ![p] = rec]
    /\ cs' = [cs EXCEPT ![p] = "acquire"]

\* a lock that never blocks
LockIgnored == TRUE

\* the lock's __enter__: blocks while another thread holds it
LockFree == lock = NoOne

\* the history of appends after thread p has appended a record
Noted(appended, p) ==
    IF p \in TradeIds THEN [appended EXCEPT ![p] = @ + 1] ELSE appended

\* lines 96-97: the with block is entered as soon as the lock is free, and
\* the record is appended; the history notes the append
AddAppend(p) ==
    /\ cs[p] = "acquire"
    /\ LockFree
    /\ lock' = p
    /\ transactions' = Append(transactions, tr[p])
    /\ cs' = [cs EXCEPT ![p] = "stats"]
    /\ hist' = [hist EXCEPT !.appended = Noted(@, p), !.logged = @ + 1]
    /\ UNCHANGED <<running, stats, thr, rn, ui, tr, nStarts, nBatches>>

\* the statistics with "pl >= 0" for the test of line 102
AccumulateLoose(s, rec) ==
    [stake_total  |-> s.stake_total + rec.stake,
     payout_total |-> s.payout_total + rec.payout,
     profit       |-> s.profit + rec.pl,
     wins         |-> IF rec.pl >= 0 THEN s.wins + 1 ELSE s.wins,
     losses       |-> IF rec.pl < 0 THEN s.losses + 1 ELSE s.losses]

\* lines 98-105: the new value of stats after recording rec
Accumulate(s, rec) ==
    [stake_total  |-> s.stake_total + rec.stake,
     payout_total |-> s.payout_total + rec.payout,
     profit       |-> s.profit + rec.pl,
     wins         |-> IF rec.pl > 0 THEN s.wins + 1 ELSE s.wins,
     losses       |-> IF rec.pl > 0 THEN s.losses
                      ELSE IF rec.pl < 0 THEN s.losses + 1 ELSE s.losses]

\* add_transaction with a lock that is released by hand, and not when the
\* record is that of an exception
AddStatsHolding(p) ==
    /\ cs[p] = "stats"
    /\ stats' = Accumulate(stats, tr[p])
    /\ lock' = IF tr[p].status = "Exception" THEN lock ELSE NoOne
    /\ cs' = [cs EXCEPT ![p] = "out"]
    /\ tr' = [tr EXCEPT ![p] = NoRecord]
    /\ UNCHANGED <<running, transactions, thr, rn, ui, nStarts, nBatches, hist>>

\* lines 98-105 and the end of the with block: the lock's __exit__
AddStats(p) ==
    /\ cs[p] = "stats"
    /\ stats' = Accumulate(stats, tr[p])
    /\ lock' = NoOne
    /\ cs' = [cs EXCEPT ![p] = "out"]
    /\ tr' = [tr EXCEPT ![p] = NoRecord]
    /\ UNCHANGED <<running, transactions, thr, rn, ui, nStarts, nBatches, hist>>

AddTransaction(p) ==
    \/ AddAppend(p)
    \/ AddStats(p)

\* ----------------------------------------------------------- trade_thread
\* the record trade_thread passes to add_transaction (lines 158-161,
\* 205-208, 244-247, 299-302, 306-309, 313-316)
Outcome(t, payout, pl, status) ==
    Record("trade", t[3], t[2], thr[t].stake, payout, pl, status)

\* A return inside the try block (lines 162, 209, 248, 303) with the record
\* of an unsettled trade: payout and pl still hold 0.0 (lines 141-142).
\* add_transaction runs first, then the finally block.
Finish(t, status, how, heard) ==
    /\ CallAdd(t, Outcome(t, 0, 0, status))
    /\ thr' = [thr EXCEPT ![t].pc = "finally", ![t].how = how,
                          ![t].heard = heard]

\* the except block without its add_transaction call
RaiseUnrecorded(t, how, ws, heard) ==
    /\ thr' = [thr EXCEPT ![t].pc = "finally", ![t].how = how, ![t].ws = ws,
                          ![t].heard = heard]
    /\ UNCHANGED <<cs, tr>>

\* lines 311-316: an exception raised in the try block, with the state ws of
\* the connection object at that point; payout and pl are assigned only
\* after the last statement of a settlement branch that can raise, so they
\* still hold 0.0
RaiseWith(t, how, ws, heard) ==
    /\ CallAdd(t, Outcome(t, 0, 0, "Exception"))
    /\ thr' = [thr EXCEPT ![t].pc = "finally", ![t].how = how, ![t].ws = ws,
                          ![t].heard = heard]

Raise(t, how, heard) == RaiseWith(t, how, thr[t].ws, heard)

\* A received message, as the fields the code reads: tag (the key the code
\* tests for), contract id (cid), is_sold, buy_price, sell_price, and for a
\* sell message whether sell_price / profit are present.
Msg(tag, cid, sold, bp, sp, hassp, profit, hasprofit) ==
    [tag |-> tag, cid |-> cid, sold |-> sold, buy_price |-> bp, sell_price |-> sp,
     has_sell_price |-> hassp, profit |-> profit, has_profit |-> hasprofit]

Plain(tag) == Msg(tag, 0, FALSE, 0, 0, FALSE, 0, FALSE)

Tagged(tags) == {Plain(tag) : tag \in tags}

\* What one ws.recv() of a wait loop can bring besides the awaited tags, by
\* the way the loop treats it: "recv_fails" (time-out or closed socket:
\* continue), "garbage" (not JSON: continue), "other" (a JSON object without
\* the awaited tags), "scalar" (JSON that is no object, such as a number:
\* the "in" test raises TypeError), "bad_payload" (the awaited tag with a
\* payload the code cannot read: no object, or a price float() rejects).
SkippedTags == {"recv_fails", "garbage", "other"}
RaisingTags == {"scalar", "bad_payload"}

\* The messages one wait loop receives until its time limit (6 s, 25 s) is
\* over: n of them, at least one, since the loop test is true right after
\* start = time.time().
Receives == 1..MaxMsgs
Received(alphabet, n) == [1..n -> alphabet]

\* The loops of lines 185-200, 223-239, 254-295 go through the messages
\* until one ends the loop (break or exception).  Of the positions of the
\* messages that would end the loop, the first one; 0 when there is none
\* and the time limit ends the loop
FirstOf(hits) ==
    IF hits = {} THEN 0 ELSE CHOOSE k \in hits : \A j \in hits : k <= j

\* the message that ended the loop, and the messages received by then
Decisive(ms, k) == IF k = 0 THEN Plain("timeout") ELSE ms[k]
Consumed(ms, k) == IF k = 0 THEN ms ELSE SubSeq(ms, 1, k)

\* lines 147-153: create the connection object, connect, send the authorize
\* request
ConnectResults == {"ok", "connect_fails", "send_fails"}

T_Connect(t, res) ==
    /\ thr[t].pc = "connect"
    /\ cs[t] = "out"
    /\ CASE res = "ok" ->
              /\ thr' = [thr EXCEPT ![t].pc = "authorize", ![t].ws = "open",
                                    ![t].sent = <<"authorize">>,
                                    ![t].path = <<"Authorizing">>]
              /\ UNCHANGED <<cs, tr>>
         [] res = "connect_fails" -> RaiseWith(t, "connect", "unconnected", <<>>)
         [] res = "send_fails" -> RaiseWith(t, "connect", "open", <<>>)
    /\ UNCHANGED <<running, transactions, stats, lock, rn, ui,
                   nStarts, nBatches, hist>>

AuthMsgs == Tagged({"authorize", "other", "error", "recv_fails", "garbage", "scalar"})

\* the authorize step without the test of line 157: an error response is
\* taken for a success
T_AuthorizeUnchecked(t, m, sendok) ==
    /\ thr[t].pc = "authorize"
    /\ cs[t] = "out"
    /\ IF m.tag \in {"recv_fails", "garbage", "scalar"} \/ ~sendok
       THEN Raise(t, "authorize", <<m>>)
       ELSE /\ thr' = [thr EXCEPT ![t].pc = "quote",
                                  ![t].auth = IF m.tag = "error" THEN "error" ELSE "ok",
                                  ![t].sent = Append(@, "proposal"),
                                  ![t].path = Append(@, "Quoting")]
            /\ UNCHANGED <<cs, tr>>
    /\ UNCHANGED <<running, transactions, stats, lock, rn, ui,
                   nStarts, nBatches, hist>>

\* lines 154-180: one receive, not guarded: a failed receive, text that is
\* not JSON and a JSON scalar raise; any object without "error" counts as
\* success, and the proposal request is built and sent

T_Authorize(t, m, sendok) ==
    /\ thr[t].pc = "authorize"
    /\ cs[t] = "out"
    /\ CASE m.tag \in {"recv_fails", "garbage", "scalar"} ->
              Raise(t, "authorize", <<m>>)
         [] m.tag = "error" ->
              /\ CallAdd(t, Outcome(t, 0, 0, "AuthError"))
              /\ thr' = [thr EXCEPT ![t].pc = "finally", ![t].how = "auth_error",
                                    ![t].auth = "error", ![t].heard = <<m>>]
         [] OTHER ->
              IF sendok
              THEN /\ thr' = [thr EXCEPT ![t].pc = "quote", ![t].auth = "ok",
                                         ![t].sent = Append(@, "proposal"),
                                         ![t].path = Append(@, "Quoting")]
                   /\ UNCHANGED <<cs, tr>>
              ELSE Raise(t, "authorize", <<m>>)
    /\ UNCHANGED <<running, transactions, stats, lock, rn, ui,
                   nStarts, nBatches, hist>>

\* lines 183-217: the wait for the proposal response, and the buy request.
\* "proposal_empty" is a proposal tag with an empty payload.
QuoteMsgs ==
    Tagged({"proposal", "proposal_empty", "error"} \cup SkippedTags \cup RaisingTags)

\* lines 195-200, 233-239: every message but the skipped ones ends the loop
EndsWait(m) == m.tag \notin SkippedTags

\* the wait for the proposal response without the test of line 202: after
\* an error response the buy request is sent all the same
T_QuoteUnchecked(t, ms, sendok) ==
    /\ thr[t].pc = "quote"
    /\ cs[t] = "out"
    /\ LET k == FirstOf({j \in DOMAIN ms : EndsWait(ms[j])})
           m == Decisive(ms, k)
           heard == Consumed(ms, k) IN
       CASE m.tag \in {"proposal", "error"} /\ sendok ->
              /\ thr' = [thr EXCEPT ![t].pc = "buy", ![t].sent = Append(@, "buy"),
                                    ![t].path = Append(@, "Purchasing"),
                                    ![t].acks = Append(@, m.tag)]
              /\ UNCHANGED <<cs, tr>>
         [] m.tag \in {"proposal", "error"} /\ ~sendok -> Raise(t, "quote", heard)
         [] m.tag = "proposal_empty" ->
              Finish(t, "ProposalError", "quote_error", heard)
         [] m.tag = "timeout" -> Finish(t, "ProposalError", "quote_timeout", heard)
         [] OTHER -> Raise(t, "quote", heard)
    /\ UNCHANGED <<running, transactions, stats, lock, rn, ui,
                   nStarts, nBatches, hist>>

T_Quote(t, ms, sendok) ==
    /\ thr[t].pc = "quote"
    /\ cs[t] = "out"
    /\ LET k == FirstOf({j \in DOMAIN ms : EndsWait(ms[j])})
           m == Decisive(ms, k)
           heard == Consumed(ms, k) IN
       CASE m.tag = "proposal" /\ sendok ->
              /\ thr' = [thr EXCEPT ![t].pc = "buy", ![t].sent = Append(@, "buy"),
                                    ![t].path = Append(@, "Purchasing"),
                                    ![t].acks = Append(@, m.tag)]
              /\ UNCHANGED <<cs, tr>>
         [] m.tag = "proposal" /\ ~sendok -> Raise(t, "quote", heard)
         [] m.tag \in {"proposal_empty", "error"} ->
              Finish(t, "ProposalError", "quote_error", heard)
         [] m.tag = "timeout" -> Finish(t, "ProposalError", "quote_timeout", heard)
         [] OTHER -> Raise(t, "quote", heard)
    /\ UNCHANGED <<running, transactions, stats, lock, rn, ui,
                   nStarts, nBatches, hist>>

\* lines 220-250: the wait for the buy response.  "buy" carries a contract
\* id, "buy_noid" is a non-empty payload without one, "buy_empty" is {}.
BuyMsgs ==
    Tagged({"buy", "buy_noid", "buy_empty", "error"} \cup SkippedTags \cup RaisingTags)

\* the contract id the buy response carried, and another contract's id
OwnContract == 1
OtherContract == 2

T_Buy(t, ms) ==
    /\ thr[t].pc = "buy"
    /\ cs[t] = "out"
    /\ LET k == FirstOf({j \in DOMAIN ms : EndsWait(ms[j])})
           m == Decisive(ms, k)
           heard == Consumed(ms, k) IN
       CASE m.tag \in {"buy", "buy_noid"} ->
              /\ thr' = [thr EXCEPT ![t].pc = "settle",
                            ![t].contract_id = IF m.tag = "buy" THEN OwnContract ELSE 0,
                            ![t].path = Append(@, "AwaitingSettlement"),
                            ![t].acks = Append(@, m.tag)]
              /\ UNCHANGED <<cs, tr>>
         [] m.tag \in {"buy_empty", "error"} ->
              Finish(t, "BuyError", "buy_error", heard)
         [] m.tag = "timeout" -> Finish(t, "BuyError", "buy_timeout", heard)
         [] OTHER -> Raise(t, "buy", heard)
    /\ UNCHANGED <<running, transactions, stats, lock, rn, ui,
                   nStarts, nBatches, hist>>

\* the messages of the settlement wait
BuyPrices == {1}
SellPrices == {0, 1, 2}
Profits == {-1, 1}

OpenContractMsgs ==
    {Msg("proposal_open_contract", c, sold, bp, sp, TRUE, 0, FALSE) :
        c \in {OwnContract, OtherContract}, sold \in BOOLEAN,
        bp \in BuyPrices, sp \in SellPrices}
ContractMsgs ==
    {Msg("contract", c, FALSE, bp, sp, TRUE, 0, FALSE) :
        c \in {OwnContract, OtherContract}, bp \in BuyPrices, sp \in SellPrices}
SellMsgs ==
    {Msg("sell", 0, FALSE, 0, sp, TRUE, 0, FALSE) : sp \in SellPrices}
    \cup {Msg("sell", 0, FALSE, 0, 0, FALSE, pr, TRUE) : pr \in Profits}
    \cup {Plain("sell")}
SettleMsgs ==
    OpenContractMsgs \cup ContractMsgs \cup SellMsgs
    \cup Tagged(SkippedTags \cup RaisingTags)

\* line 266, line 279: the message is about this trade's contract
Matches(contract_id, m) == contract_id # 0 /\ m.cid = contract_id

\* the settlement test without the is_sold test of line 268
SettlesUnsold(contract_id, m) ==
    \/ m.tag = "proposal_open_contract" /\ Matches(contract_id, m)
    \/ m.tag = "contract" /\ Matches(contract_id, m)
    \/ m.tag = "sell"

\* lines 264-295: whether message m settles the trade
Settles(contract_id, m) ==
    \/ m.tag = "proposal_open_contract" /\ Matches(contract_id, m) /\ m.sold
    \/ m.tag = "contract" /\ Matches(contract_id, m)
    \/ m.tag = "sell"

\* lines 269-270, 281-282, 291: the payout a settling message gives
SettledPayout(m) ==
    IF m.tag = "sell"
    THEN (IF m.has_sell_price THEN m.sell_price
          ELSE IF m.has_profit THEN m.profit ELSE 0)
    ELSE m.sell_price

\* lines 271, 283, 292: the profit / loss a settling message gives
SettledPl(m) ==
    IF m.tag = "sell" THEN SettledPayout(m) ELSE SettledPayout(m) - m.buy_price

\* lines 274, 286, 293
Classify(pl) == IF pl > 0 THEN "Win" ELSE IF pl < 0 THEN "Loss" ELSE "Even"

\* lines 264-295: the message raises or settles the trade
EndsSettle(contract_id, m) ==
    m.tag \in RaisingTags \/ Settles(contract_id, m)

\* the settlement wait without the time limit of line 254: as long as no
\* message settles the trade or raises, the loop goes on
T_SettleUnbounded(t, ms) ==
    /\ thr[t].pc = "settle"
    /\ cs[t] = "out"
    /\ LET k == FirstOf({j \in DOMAIN ms : EndsSettle(thr[t].contract_id, ms[j])})
           m == Decisive(ms, k)
           heard == Consumed(ms, k) IN
       CASE m.tag = "timeout" ->
              /\ thr' = [thr EXCEPT ![t].heard = <<ms[Len(ms)]>>]
              /\ UNCHANGED <<cs, tr>>
         [] m.tag \in RaisingTags -> Raise(t, "settle", heard)
         [] OTHER ->
              /\ CallAdd(t, Outcome(t, SettledPayout(m), SettledPl(m),
                                    Classify(SettledPl(m))))
              /\ thr' = [thr EXCEPT ![t].pc = "finally", ![t].how = "settled",
                                    ![t].heard = heard]
    /\ UNCHANGED <<running, transactions, stats, lock, rn, ui,
                   nStarts, nBatches, hist>>

\* lines 252-309: the settlement wait and the final record; the loop ends at
\* the first message that settles the trade or raises
T_Settle(t, ms) ==
    /\ thr[t].pc = "settle"
    /\ cs[t] = "out"
    /\ LET k == FirstOf({j \in DOMAIN ms : EndsSettle(thr[t].contract_id, ms[j])})
           m == Decisive(ms, k)
           heard == Consumed(ms, k) IN
       CASE m.tag = "timeout" -> Finish(t, "NoSettlement", "settle_timeout", heard)
         [] m.tag \in RaisingTags -> Raise(t, "settle", heard)
         [] OTHER ->
              /\ CallAdd(t, Outcome(t, SettledPayout(m), SettledPl(m),
                                    Classify(SettledPl(m))))
              /\ thr' = [thr EXCEPT ![t].pc = "finally", ![t].how = "settled",
                                    ![t].heard = heard]
    /\ UNCHANGED <<running, transactions, stats, lock, rn, ui,
                   nStarts, nBatches, hist>>

\* the end of the thread without the finally block
T_NoFinally(t) ==
    /\ thr[t].pc = "finally"
    /\ cs[t] = "out"
    /\ thr' = [thr EXCEPT ![t] = [FreshTrade EXCEPT !.pc = "done", !.ws = thr[t].ws]]
    /\ UNCHANGED <<running, transactions, stats, lock, rn, ui, cs, tr,
                   nStarts, nBatches, hist>>

\* lines 317-322: the finally block closes the connection object if there
\* is one; the thread ends and its locals are gone
T_Finally(t) ==
    /\ thr[t].pc = "finally"
    /\ cs[t] = "out"
    /\ thr' = [thr EXCEPT ![t] =
                 [FreshTrade EXCEPT !.pc = "done",
                                    !.ws = IF thr[t].ws = "none" THEN "none"
                                           ELSE "closed"]]
    /\ UNCHANGED <<running, transactions, stats, lock, rn, ui, cs, tr,
                   nStarts, nBatches, hist>>

\* One step of trade thread t.  env gives what the remote endpoint may do
\* at each step: the results of connect and of the sends, the authorize
\* response and the messages of each wait.
TradeStepOn(t, env) ==
    \/ \E res \in env.connect : T_Connect(t, res)
    \/ \E m \in env.auth, sendok \in env.sendok : T_Authorize(t, m, sendok)
    \/ /\ thr[t].pc = "quote"
       /\ \E n \in Receives, sendok \in env.sendok :
             \E ms \in Received(env.quote, n) : T_Quote(t, ms, sendok)
    \/ /\ thr[t].pc = "buy"
       /\ \E n \in Receives : \E ms \in Received(env.buy, n) : T_Buy(t, ms)
    \/ /\ thr[t].pc = "settle"
       /\ \E n \in Receives : \E ms \in Received(env.settle, n) : T_Settle(t, ms)
    \/ T_Finally(t)
    \/ AddTransaction(t)

\* every behaviour of the remote endpoint
AnyEndpoint ==
    [connect |-> ConnectResults, auth |-> AuthMsgs, quote |-> QuoteMsgs,
     sendok |-> BOOLEAN, buy |-> BuyMsgs, settle |-> SettleMsgs]

TradeStep(t) == TradeStepOn(t, AnyEndpoint)

\* ------------------------------------------------ one trade on its own
\* trade_thread called once, as the first trade of a batch
InitTrade ==
    /\ running = TRUE
    /\ transactions = <<>>
    /\ stats = ZeroStats
    /\ lock = NoOne
    /\ \E st \in Stakes :
         LET t0 == TradeId(1, 1) IN
         thr = [t \in TradeIds |->
                  IF t = t0 THEN [FreshTrade EXCEPT !.pc = "connect", !.stake = st]
                  ELSE FreshTrade]
    /\ rn = [r \in RunnerIds |-> FreshRunner]
    /\ ui = IdleUi
    /\ cs = [p \in Procs |-> "out"]
    /\ tr = [p \in Procs |-> NoRecord]
    /\ nStarts = 0
    /\ nBatches = 0
    /\ hist = NoHistory

NextTrade == \E t \in TradeIds : TradeStep(t)

SpecTrade == InitTrade /\ [][NextTrade]_vars

\* the trade thread is scheduled again and again and time goes on: a step
\* the thread can take is taken (every receive, lines 154, 186, 226, 257,
\* returns or raises within its time-out)
FairSpecTrade == SpecTrade /\ WF_vars(NextTrade)

\* ---------------------------------------------------------- run_bulk_batch
\* lines 328-330: the batch gets the next batch number and appends its
\* BatchStart marker
BeginBatch(r, b) ==
    /\ CallAdd(r, Record("BatchStart", 0, b, 0, 0, 0, "Starting batch"))
    /\ nBatches' = b

\* lines 327-330, run_bulk_batch started as the thread's target (line 406)
R_Batch(r) ==
    /\ rn[r].pc = "batch"
    /\ cs[r] = "out"
    /\ nBatches < MaxBatches
    /\ BeginBatch(r, nBatches + 1)
    /\ rn' = [rn EXCEPT ![r].pc = "spawn", ![r].b = nBatches + 1, ![r].i = 1]
    /\ UNCHANGED <<running, transactions, stats, lock, thr, ui, nStarts, hist>>

\* lines 331-335: start trade thread i of the batch
R_Spawn(r) ==
    /\ rn[r].pc = "spawn"
    /\ cs[r] = "out"
    /\ thr' = [thr EXCEPT ![TradeId(rn[r].b, rn[r].i)] =
                 [FreshTrade EXCEPT !.pc = "connect", !.stake = rn[r].stake]]
    /\ rn' = [rn EXCEPT ![r].pc = IF rn[r].i = rn[r].n THEN "join" ELSE "spawn",
                        ![r].i = IF rn[r].i = rn[r].n THEN 1 ELSE @ + 1]
    /\ UNCHANGED <<running, transactions, stats, lock, ui, cs, tr,
                   nStarts, nBatches, hist>>

\* the locals of a runner whose last statement is the add_transaction call
\* in progress: the thread ends when the call returns
Ending == [FreshRunner EXCEPT !.pc = "end"]

\* where the runner goes on after the batch: line 348 and the loop test for
\* continuous_runner, the end of the thread for a single batch
AfterBatch(r) ==
    IF rn[r].continuous THEN [rn[r] EXCEPT !.pc = "loop", !.i = 1] ELSE Ending

\* the end of the batch without line 338
JoinedUnmarked(r) ==
    /\ rn' = [rn EXCEPT ![r] = IF rn[r].i = rn[r].n THEN AfterBatch(r)
                               ELSE [rn[r] EXCEPT !.i = @ + 1]]
    /\ UNCHANGED <<cs, tr>>

\* lines 336-338: t.join(timeout=40) returns; after the last join the
\* BatchEnd marker is appended
Joined(r) ==
    IF rn[r].i = rn[r].n
    THEN /\ CallAdd(r, Record("BatchEnd", 0, rn[r].b, 0, 0, 0, "Batch finished"))
         /\ rn' = [rn EXCEPT ![r] = AfterBatch(r)]
    ELSE /\ rn' = [rn EXCEPT ![r].i = @ + 1]
         /\ UNCHANGED <<cs, tr>>

\* line 337: the joined thread has ended
R_Join(r) ==
    /\ rn[r].pc = "join"
    /\ cs[r] = "out"
    /\ thr[TradeId(rn[r].b, rn[r].i)].pc = "done"
    /\ Joined(r)
    /\ UNCHANGED <<running, transactions, stats, lock, thr, ui,
                   nStarts, nBatches, hist>>

\* A thread that can be alive 40 s after its start: connect (8 s), the
\* authorize receive (8 s) and the proposal wait (6 s and one receive of
\* 8 s) end within 30 s, so the thread is past them (lines 149, 185).
Overdue(t) == thr[t].pc \in {"buy", "settle", "finally"}

\* line 337: 40 s have passed and the joined thread is still alive; it is
\* left running
R_JoinTimeout(r) ==
    /\ rn[r].pc = "join"
    /\ cs[r] = "out"
    /\ Overdue(TradeId(rn[r].b, rn[r].i))
    /\ Joined(r)
    /\ UNCHANGED <<running, transactions, stats, lock, thr, ui,
                   nStarts, nBatches, hist>>

\* -------------------------------------------------------- continuous_runner
\* lines 345-347: the loop test finds running true: the next batch begins
R_LoopRun(r) ==
    /\ rn[r].pc = "loop"
    /\ cs[r] = "out"
    /\ running
    /\ nBatches < MaxBatches
    /\ BeginBatch(r, nBatches + 1)
    /\ rn' = [rn EXCEPT ![r].pc = "spawn", ![r].b = nBatches + 1, ![r].i = 1,
                        ![r].batch_no = @ + 1]
    /\ UNCHANGED <<running, transactions, stats, lock, thr, ui, nStarts, hist>>

\* lines 345, 349: the loop test finds running false: the Stopped marker
R_LoopExit(r) ==
    /\ rn[r].pc = "loop"
    /\ cs[r] = "out"
    /\ ~running
    /\ CallAdd(r, Record("System", 0, 0, 0, 0, 0, "Stopped continuous runner"))
    /\ rn' = [rn EXCEPT ![r] = Ending]
    /\ UNCHANGED <<running, transactions, stats, lock, thr, ui,
                   nStarts, nBatches, hist>>

\* one step of a thread running run_bulk_batch
BatchStep(r) ==
    \/ R_Batch(r)
    \/ R_Spawn(r)
    \/ R_Join(r)
    \/ R_JoinTimeout(r)
    \/ AddTransaction(r)

\* one step of a runner thread
RunnerStep(r) ==
    \/ BatchStep(r)
    \/ R_LoopRun(r)
    \/ R_LoopExit(r)

\* ------------------------------------------------------------------ main_ui
\* a runner thread that has been started and has not ended
Active(r) == rn[r].pc # "idle" /\ ~(rn[r].pc = "end" /\ cs[r] = "out")

\* lines 391-397: Start is offered while running is false; pressed with an
\* API token, the script enters the with block as soon as the lock is free
\* and clears the log.  (Without a token it shows an error and changes
\* nothing.)
U_Start(continuous, stake, n) ==
    /\ ui.pc = "idle"
    /\ ~running
    /\ nStarts < MaxStarts
    /\ LockFree
    /\ lock' = UiId
    /\ transactions' = <<>>
    /\ hist' = [hist EXCEPT !.logged = 0]
    /\ ui' = [pc |-> "clear_stats", continuous |-> continuous, stake |-> stake,
              n |-> n]
    /\ UNCHANGED <<running, stats, thr, rn, cs, tr, nStarts, nBatches>>

\* the runner thread Start creates: continuous_runner (line 404) or
\* run_bulk_batch (line 406)
NewRunner(continuous, stake, n) ==
    [FreshRunner EXCEPT !.pc = IF continuous THEN "loop" ELSE "batch",
                        !.continuous = continuous, !.stake = stake, !.n = n]

\* the end of the Start handler without line 398: the statistics are kept
U_RunKeepsStats ==
    /\ ui.pc = "clear_stats"
    /\ running' = TRUE
    /\ lock' = NoOne
    /\ nStarts' = nStarts + 1
    /\ rn' = [rn EXCEPT ![RunnerId(nStarts + 1)] = NewRunner(ui.continuous, ui.stake, ui.n)]
    /\ ui' = IdleUi
    /\ UNCHANGED <<transactions, stats, thr, cs, tr, nBatches, hist>>

\* lines 398-406: the statistics are cleared, running is set, the with
\* block ends and the runner thread is started
U_Run ==
    /\ ui.pc = "clear_stats"
    /\ stats' = ZeroStats
    /\ running' = TRUE
    /\ lock' = NoOne
    /\ nStarts' = nStarts + 1
    /\ rn' = [rn EXCEPT ![RunnerId(nStarts + 1)] = NewRunner(ui.continuous, ui.stake, ui.n)]
    /\ ui' = IdleUi
    /\ UNCHANGED <<transactions, thr, cs, tr, nBatches, hist>>

\* lines 407-409: Stop is offered while running is true
U_Stop ==
    /\ ui.pc = "idle"
    /\ running
    /\ running' = FALSE
    /\ hist' = [hist EXCEPT !.stopped =
                  [r \in RunnerIds |-> hist.stopped[r] \/ Active(r)]]
    /\ UNCHANGED <<transactions, stats, lock, thr, rn, ui, cs, tr,
                   nStarts, nBatches>>

UiStep ==
    \/ \E continuous \in BOOLEAN, stake \in Stakes :
          U_Start(continuous, stake, RunTrades)
    \/ U_Run
    \/ U_Stop

\* ------------------------------------------------ one batch on its own
\* the state after a Start with "Repeat batches until STOP" off: running is
\* true and the thread of run_bulk_batch has been started
InitBatch ==
    /\ running = TRUE
    /\ transactions = <<>>
    /\ stats = ZeroStats
    /\ lock = NoOne
    /\ thr = [t \in TradeIds |-> FreshTrade]
    /\ \E st \in Stakes :
         rn = [r \in RunnerIds |->
                 IF r = RunnerId(1) THEN NewRunner(FALSE, st, NumTrades)
                 ELSE FreshRunner]
    /\ ui = IdleUi
    /\ cs = [p \in Procs |-> "out"]
    /\ tr = [p \in Procs |-> NoRecord]
    /\ nStarts = 1
    /\ nBatches = 0
    /\ hist = NoHistory

\* the endpoint behaviours followed for the trades of the batch: a failure
\* at connect, at authorize, in the proposal wait and in the buy wait, and
\* a win
BatchEndpoint ==
    [connect |-> {"ok", "connect_fails"}, auth |-> Tagged({"authorize", "error"}),
     quote |-> Tagged({"proposal", "error"}), sendok |-> {TRUE},
     buy |-> Tagged({"buy", "error"}),
     settle |-> {Msg("proposal_open_contract", OwnContract, TRUE, 1, 2, TRUE, 0, FALSE)}]

NextBatch ==
    \/ BatchStep(RunnerId(1))
    \/ \E t \in TradeIds : TradeStepOn(t, BatchEndpoint)

SpecBatch == InitBatch /\ [][NextBatch]_vars

\* ------------------------------------------- the operator's commands
\* lines 18-25: the session defaults
Init ==
    /\ running = FALSE
    /\ transactions = <<>>
    /\ stats = ZeroStats
    /\ lock = NoOne
    /\ thr = [t \in TradeIds |-> FreshTrade]
    /\ rn = [r \in RunnerIds |-> FreshRunner]
    /\ ui = IdleUi
    /\ cs = [p \in Procs |-> "out"]
    /\ tr = [p \in Procs |-> NoRecord]
    /\ nStarts = 0
    /\ nBatches = 0
    /\ hist = NoHistory

\* the endpoint behaviours followed under the operator's commands: a trade
\* fails to connect, wins or loses
SomeEndpoint ==
    [connect |-> {"ok", "connect_fails"}, auth |-> Tagged({"authorize"}),
     quote |-> Tagged({"proposal"}), sendok |-> {TRUE},
     buy |-> Tagged({"buy"}),
     settle |-> {Msg("proposal_open_contract", OwnContract, TRUE, 1, sp, TRUE, 0, FALSE) :
                    sp \in {0, 2}}]

Next ==
    \/ UiStep
    \/ \E r \in RunnerIds : RunnerStep(r)
    \/ \E t \in TradeIds : TradeStepOn(t, SomeEndpoint)

Spec == Init /\ [][Next]_vars

\* =========================================================== properties
\* the positions in the log of the records of trade thread t
LoggedBy(t) ==
    {k \in DOMAIN transactions :
        /\ transactions[k].kind = "trade"
        /\ transactions[k].b = t[2]
        /\ transactions[k].trade_no = t[3]}

\* the record thread t has passed to add_transaction: the argument of the
\* call in progress, else its record in the log
RecordOf(t) ==
    IF cs[t] # "out" THEN tr[t]
    ELSE IF LoggedBy(t) = {} THEN NoRecord
    ELSE transactions[CHOOSE k \in LoggedBy(t) : TRUE]

\* trade thread t has not yet reached a call of add_transaction
Underway(t) ==
    thr[t].pc \in {"idle", "connect", "authorize", "quote", "buy", "settle"}

\* trade thread t has returned from its call of add_transaction
Recorded(t) == thr[t].pc \in {"finally", "done"} /\ cs[t] = "out"

\* C1: every call of trade_thread appends exactly one outcome record: none
\* while the trade is under way, one from the moment its add_transaction
\* call has returned, whatever path the trade took, and never a second one.
C1_ExactlyOneRecord ==
    \A t \in TradeIds :
        /\ hist.appended[t] <= 1
        /\ Cardinality(LoggedBy(t)) = hist.appended[t]
        /\ Underway(t) => hist.appended[t] = 0
        /\ Recorded(t) => hist.appended[t] = 1

\* a trade that failed to connect has ended with its one record in the log
C1_Witness ==
    \E t \in TradeIds :
        /\ thr[t].pc = "done"
        /\ thr[t].ws = "closed"
        /\ hist.appended[t] = 1
        /\ transactions = <<Record("trade", t[3], t[2], 1, 0, 0, "Exception")>>

\* a settlement signal in the words of the claim: a sold open-contract
\* update or a contract update with the trade's contract id, or a sell
\* confirmation
RecognizedSettlement(contract_id, m) ==
    \/ /\ m.tag \in {"proposal_open_contract", "contract"}
       /\ contract_id # 0
       /\ m.cid = contract_id
       /\ m.tag = "proposal_open_contract" => m.sold
    \/ m.tag = "sell"

\* trade t was purchased and its settlement wait ran to the time limit: no
\* message it received was a settlement signal, and none raised
WaitedInVain(t) ==
    /\ thr[t].pc = "finally"
    /\ thr[t].path # <<>>
    /\ thr[t].path[Len(thr[t].path)] = "AwaitingSettlement"
    /\ \A k \in DOMAIN thr[t].heard :
          /\ ~RecognizedSettlement(thr[t].contract_id, thr[t].heard[k])
          /\ thr[t].heard[k].tag \notin RaisingTags

\* C5: a purchased trade that receives no recognized settlement message
\* before the settlement timeout records NoSettlement with payout 0 and
\* pl 0, also when it received non-final updates or unrelated messages.
C5_NoSettlement ==
    \A t \in TradeIds :
        WaitedInVain(t) =>
            /\ RecordOf(t).status = "NoSettlement"
            /\ RecordOf(t).payout = 0
            /\ RecordOf(t).pl = 0

\* the wait brought a non-final update of the trade's own contract and an
\* unrelated message, and NoSettlement is in the log
C5_Witness ==
    \E t \in TradeIds :
        /\ WaitedInVain(t)
        /\ cs[t] = "out"
        /\ \E k \in DOMAIN thr[t].heard :
              /\ thr[t].heard[k].tag = "proposal_open_contract"
              /\ thr[t].heard[k].cid = thr[t].contract_id
              /\ thr[t].heard[k].sell_price > thr[t].heard[k].buy_price
        /\ \E k \in DOMAIN thr[t].heard : thr[t].heard[k].tag = "other"
        /\ transactions[1].status = "NoSettlement"

\* C6: a trade whose authorize response contains an error sends neither a
\* proposal nor a buy request (the authorize request stays the only one),
\* never leaves Authorizing, and records exactly one outcome, AuthError
\* with payout 0 and pl 0.
C6_AuthError ==
    \A t \in TradeIds :
        thr[t].auth = "error" =>
            /\ thr[t].sent = <<"authorize">>
            /\ thr[t].path = <<"Authorizing">>
            /\ RecordOf(t).status = "AuthError"
            /\ RecordOf(t).payout = 0
            /\ RecordOf(t).pl = 0
            /\ hist.appended[t] = IF cs[t] \in {"out", "stats"} THEN 1 ELSE 0

\* the trade got an error in answer to authorize and its AuthError record
\* is in the log
C6_Witness ==
    \E t \in TradeIds :
        /\ thr[t].auth = "error"
        /\ thr[t].pc = "finally"
        /\ cs[t] = "out"
        /\ transactions = <<Record("trade", t[3], t[2], 1, 0, 0, "AuthError")>>

\* C9: once a trade thread has terminated its connection is closed; and no
\* connection stays open for ever: while one is open its thread has not
\* ended and has a step to take (every behaviour is finite, so the thread
\* goes on until it has ended, on whichever path).
C9_ConnectionClosed ==
    \A t \in TradeIds :
        /\ thr[t].pc = "done" => thr[t].ws = "closed"
        /\ thr[t].pc = "idle" => thr[t].ws = "none"
        /\ thr[t].ws = "open" => ENABLED TradeStep(t)

\* a trade that ended after its settlement has closed its connection
C9_Witness ==
    \E t \in TradeIds :
        /\ thr[t].pc = "done"
        /\ thr[t].ws = "closed"
        /\ Len(transactions) = 1
        /\ transactions[1].status = "Loss"

\* the trade threads of the batch of SpecBatch, and its runner
BatchTrades == {TradeId(1, i) : i \in 1..NumTrades}
BatchRunner == RunnerId(1)

\* the positions in the log of the markers of a kind
Markers(kind) == {k \in DOMAIN transactions : transactions[k].kind = kind}

\* the batch's runner has ended and none of its trade threads is running
BatchOver ==
    /\ rn[BatchRunner].pc = "end"
    /\ cs[BatchRunner] = "out"
    /\ \A t \in BatchTrades : thr[t].pc \in {"idle", "done"}

\* C2: one batch yields exactly N trade records, one for each sequence
\* number 1..N, one BatchStart and one BatchEnd marker, whatever the results
\* of the trades: never more, and all of them once the batch is over.
C2_BatchRecords ==
    /\ \A t \in BatchTrades : Cardinality(LoggedBy(t)) <= 1
    /\ Cardinality(Markers("BatchStart")) <= 1
    /\ Cardinality(Markers("BatchEnd")) <= 1
    /\ Len(transactions) <= NumTrades + 2
    /\ BatchOver =>
          /\ \A t \in BatchTrades : Cardinality(LoggedBy(t)) = 1
          /\ Cardinality(Markers("BatchStart")) = 1
          /\ Cardinality(Markers("BatchEnd")) = 1
          /\ Len(transactions) = NumTrades + 2

\* the batch is over with a trade that failed to connect, a trade that was
\* refused at authorize and the two markers in the log
C2_Witness ==
    /\ BatchOver
    /\ Len(transactions) = NumTrades + 2
    /\ \E k \in DOMAIN transactions : transactions[k].status = "Exception"
    /\ \E k \in DOMAIN transactions : transactions[k].status = "AuthError"

\* the statuses of a trade that failed
FailureStatuses ==
    {"Exception", "AuthError", "ProposalError", "BuyError", "NoSettlement"}

\* some trade of the batch has failed: its record is being appended or in
\* the log
SomeFailure ==
    \/ \E t \in BatchTrades : cs[t] # "out" /\ tr[t].status \in FailureStatuses
    \/ \E k \in DOMAIN transactions : transactions[k].status \in FailureStatuses

\* thread p waits for the lock while its holder is about to release it
WaitsForLock(p) == cs[p] = "acquire" /\ lock \in Procs /\ cs[lock] = "stats"

\* the runner waits in join for a trade thread that is running
WaitsForTrade(r) ==
    /\ rn[r].pc = "join"
    /\ cs[r] = "out"
    /\ thr[TradeId(rn[r].b, rn[r].i)].pc \notin {"idle", "done"}

\* C10: after a failure of one trade nothing stops its siblings or the
\* batch.  The failure is the failing trade's own record; every trade of
\* the batch is started; a trade that has not ended and a runner that has
\* not ended have a step to take, or wait for a lock that is about to be
\* released or for a trade that is running (behaviours are finite, so each
\* goes on to its record and the batch to its BatchEnd marker); a trade
\* that has ended has its record in the log and a batch that has ended its
\* BatchEnd marker.
C10_Contained ==
    SomeFailure =>
        /\ \A t \in BatchTrades :
              /\ Cardinality(LoggedBy(t)) = hist.appended[t]
              /\ thr[t].pc \notin {"idle", "done"} =>
                    ENABLED TradeStepOn(t, BatchEndpoint) \/ WaitsForLock(t)
              /\ thr[t].pc = "done" => Cardinality(LoggedBy(t)) = 1
              /\ rn[BatchRunner].pc \in {"join", "end"} => thr[t].pc # "idle"
        /\ Active(BatchRunner) =>
              \/ ENABLED BatchStep(BatchRunner)
              \/ WaitsForLock(BatchRunner)
              \/ WaitsForTrade(BatchRunner)
        /\ ~Active(BatchRunner) => Cardinality(Markers("BatchEnd")) = 1

\* one trade of the batch ended with an exception, a sibling won, and the
\* BatchEnd marker is in the log
C10_Witness ==
    /\ BatchOver
    /\ \E k \in DOMAIN transactions : transactions[k].status = "Exception"
    /\ \E k \in DOMAIN transactions : transactions[k].status = "Win"
    /\ transactions[Len(transactions)].kind = "BatchEnd"

\* the sum of a field over the records of a log
RECURSIVE SumOf(_, _)
SumOf(log, field) ==
    IF log = <<>> THEN 0 ELSE Head(log)[field] + SumOf(Tail(log), field)

\* the fold of a log, in the words of the claim: wins and losses by status
Tally(log) ==
    [stake_total  |-> SumOf(log, "stake"),
     payout_total |-> SumOf(log, "payout"),
     profit       |-> SumOf(log, "pl"),
     wins         |-> Cardinality({k \in DOMAIN log : log[k].status = "Win"}),
     losses       |-> Cardinality({k \in DOMAIN log : log[k].status = "Loss"})]

\* C3: whenever no thread holds the lock, the statistics are the fold of
\* the log: the sums of stake, payout and pl, wins the number of Win
\* records and losses the number of Loss records, so that wins + losses is
\* at most the number of trade records; under any interleaving of
\* add_transaction calls and Start resets.
C3_StatsAreFold ==
    lock = NoOne =>
        /\ stats = Tally(transactions)
        /\ stats.wins + stats.losses <= Cardinality(Markers("trade"))

\* after a second Start, with the lock free, the log holds markers, a
\* winning trade and a trade that ended with an exception
C3_Witness ==
    /\ lock = NoOne
    /\ nStarts = 2
    /\ stats.wins = 1
    /\ Markers("BatchStart") # {}
    /\ \E k \in DOMAIN transactions : transactions[k].status = "Exception"

\* thread p is inside the append-and-update section of add_transaction, or
\* the script inside the Start reset
InSection(p) == IF p = UiId THEN ui.pc = "clear_stats" ELSE cs[p] = "stats"

\* the log without its last record
Front(log) == SubSeq(log, 1, Len(log) - 1)

\* C4: recording is atomic: at most one thread is inside the section, the
\* one that holds the lock; no append is lost; and inside the section the
\* log and the totals are those of the calls made so far in the order of
\* the log, the call in progress being the last one.
C4_Atomic ==
    /\ Cardinality({p \in Procs : InSection(p)}) <= 1
    /\ \A p \in Procs : InSection(p) <=> lock = p
    /\ Len(transactions) = hist.logged
    /\ \A p \in Procs \ {UiId} :
          InSection(p) =>
              /\ transactions # <<>>
              /\ transactions[Len(transactions)] = tr[p]
              /\ stats = Tally(Front(transactions))
    /\ InSection(UiId) => transactions = <<>>

\* a trade thread is inside the section while another trade thread, done
\* with its trade at the same time, waits for the lock
C4_Witness ==
    \E p, q \in TradeIds :
        /\ p # q
        /\ cs[p] = "stats"
        /\ lock = p
        /\ cs[q] = "acquire"

\* C7: in the log no Stopped marker lies between a BatchStart marker and
\* the BatchEnd marker of the same batch: before any Stopped marker, every
\* batch that has started has ended.
C7_StoppedNeverMidBatch ==
    \A k \in Markers("System") :
        \A j \in Markers("BatchStart") :
            j < k => \E e \in Markers("BatchEnd") :
                        /\ j < e
                        /\ e < k
                        /\ transactions[e].b = transactions[j].b

\* C8: a continuous runner that was active when running became false starts
\* no batch after the one in flight: its batch_no does not grow any more.
C8_NoBatchAfterStop ==
    [][\A r \in RunnerIds :
          hist.stopped[r] => rn'[r].batch_no <= rn[r].batch_no]_vars

\* C11: from one recorded outcome to the next stake_total, payout_total,
\* wins and losses never decrease, whatever outcome a trade records (a
\* settlement taken from a sell message with only a profit field included).
C11_TotalsNeverDecrease ==
    [][/\ stats'.stake_total >= stats.stake_total
       /\ stats'.payout_total >= stats.payout_total
       /\ stats'.wins >= stats.wins
       /\ stats'.losses >= stats.losses]_vars

\* the message that settled trade t: the last one it received
SettledBy(t) == thr[t].heard[Len(thr[t].heard)]

\* the price trade t was bought at: the buy_price of a contract update, the
\* stake for a sell confirmation (the proposal is made on the stake basis,
\* lines 166-168)
BuyPriceOf(t, m) == IF m.tag = "sell" THEN thr[t].stake ELSE m.buy_price

\* C12: for every settled trade the recorded pl is payout minus buy price,
\* or the profit of the payload when the payload supplies it, and the
\* status is Win, Loss or Even by the sign of pl.
C12_SettledPl ==
    \A t \in TradeIds :
        (thr[t].pc = "finally" /\ RecordOf(t).status \in {"Win", "Loss", "Even"}) =>
            LET m == SettledBy(t)
                rec == RecordOf(t) IN
            /\ rec.pl = IF m.tag = "sell" /\ m.has_profit THEN m.profit
                        ELSE rec.payout - BuyPriceOf(t, m)
            /\ rec.status = "Win" <=> rec.pl > 0
            /\ rec.status = "Loss" <=> rec.pl < 0
            /\ rec.status = "Even" <=> rec.pl = 0


\* the lifecycle states after Start and the requests of a trade, in order
Stages == <<"Authorizing", "Quoting", "Purchasing", "AwaitingSettlement">>
Requests == <<"authorize", "proposal", "buy">>

Shorter(a, b) == IF a < b THEN a ELSE b

\* C13: a trade enters the lifecycle states only in the order Authorizing,
\* Quoting, Purchasing, AwaitingSettlement, none skipped and none entered
\* twice; the requests on its connection follow the states; the buy request
\* is sent only after a proposal response that is no error, the settlement
\* wait is entered only after a buy response that is no error, and only a
\* trade that reached AwaitingSettlement records Win, Loss or Even.
C13_Lifecycle ==
    \A t \in TradeIds :
        LET path == thr[t].path
            sent == thr[t].sent
            acks == thr[t].acks IN
        /\ Len(path) <= Len(Stages)
        /\ path = SubSeq(Stages, 1, Len(path))
        /\ sent = SubSeq(Requests, 1, Shorter(Len(path), Len(Requests)))
        /\ (\E k \in DOMAIN sent : sent[k] = "buy") =>
               Len(acks) >= 1 /\ acks[1] = "proposal"
        /\ (thr[t].pc = "settle" \/ Len(path) = Len(Stages)) =>
               /\ Len(acks) = 2
               /\ acks[2] \in {"buy", "buy_noid"}
               /\ Len(path) = Len(Stages)
        /\ (thr[t].pc = "finally" /\ RecordOf(t).status \in {"Win", "Loss", "Even"}) =>
               /\ Len(path) = Len(Stages)
               /\ thr[t].how = "settled"

\* a trade that went through every state and recorded a win
C13_Witness ==
    \E t \in TradeIds :
        /\ thr[t].pc = "finally"
        /\ cs[t] = "out"
        /\ thr[t].path = Stages
        /\ thr[t].sent = Requests
        /\ thr[t].acks = <<"proposal", "buy">>
        /\ RecordOf(t).status = "Win"


\* the tags a wait recognizes: the awaited key, whatever its payload, and
\* error
RecognizedIn(stage) ==
    IF stage = "Quoting" THEN {"proposal", "proposal_empty", "bad_payload", "error"}
    ELSE {"buy", "buy_noid", "buy_empty", "bad_payload", "error"}

\* trade t came to its end in the wait of lifecycle state stage
EndedIn(t, stage) ==
    /\ thr[t].pc = "finally"
    /\ thr[t].path # <<>>
    /\ thr[t].path[Len(thr[t].path)] = stage
    /\ thr[t].how \in {"quote", "quote_error", "quote_timeout",
                        "buy", "buy_error", "buy_timeout"}

\* C14: in Quoting (in Purchasing) every message that is not tagged proposal
\* (buy) or error is skipped; when the first recognized message is an error,
\* or the wait ends without a recognized message, the trade records
\* ProposalError (BuyError) with payout 0 and pl 0 and sends no further
\* request.
C14_SkipsOthers ==
    \A t \in TradeIds :
        \A stage \in {"Quoting", "Purchasing"} :
            EndedIn(t, stage) =>
                LET heard == thr[t].heard
                    k == FirstOf({j \in DOMAIN heard :
                                     heard[j].tag \in RecognizedIn(stage)}) IN
                (k = 0 \/ heard[k].tag = "error") =>
                    /\ RecordOf(t).status =
                          (IF stage = "Quoting" THEN "ProposalError" ELSE "BuyError")
                    /\ RecordOf(t).payout = 0
                    /\ RecordOf(t).pl = 0
                    /\ thr[t].sent = SubSeq(Requests, 1, Len(thr[t].path))


\* C15: when run_bulk_batch appends the BatchEnd marker every trade of the
\* batch has its outcome in the log already: each of the N trade records
\* stands before the BatchEnd marker.
C15_AllBeforeBatchEnd ==
    \A k \in Markers("BatchEnd") :
        \A t \in BatchTrades :
            \E j \in LoggedBy(t) : j < k


\* C16: the reset of Start is one atomic step for the recording of
\* outcomes: between the clearing of the log and the clearing of the
\* statistics no other thread changes the log or the statistics; at the end
\* of the reset the log is empty, the five totals are 0 and running is
\* true; and nothing but Start empties the log or zeroes totals, so the
\* later batches of a continuous run do not reset them.
C16_ResetAtomic ==
    [][/\ (ui.pc = "clear_stats" /\ ui'.pc = "idle") =>
             /\ transactions = <<>>
             /\ transactions' = <<>>
             /\ stats' = ZeroStats
             /\ running'
       /\ (ui.pc = "clear_stats" /\ ui'.pc = "clear_stats") =>
             /\ UNCHANGED <<transactions, stats>>
             /\ \A p \in Procs \ {UiId} : cs'[p] # "stats"
       /\ Len(transactions') < Len(transactions) =>
             ui.pc = "idle" /\ ui'.pc = "clear_stats"
       /\ (stats # ZeroStats /\ stats' = ZeroStats) => ui.pc = "clear_stats"
       /\ nBatches' # nBatches =>
             /\ stats' = stats
             /\ Len(transactions') >= Len(transactions)]_vars

\* Start is in the middle of its reset, the log cleared and the totals of
\* the session before not yet, while a trade thread of that session waits
\* in add_transaction for the lock
C16_Witness ==
    /\ ui.pc = "clear_stats"
    /\ lock = UiId
    /\ transactions = <<>>
    /\ stats # ZeroStats
    /\ \E t \in TradeIds : cs[t] = "acquire"


\* C17: every trade thread terminates: the thread that has been started comes
\* to its end with exactly one outcome in the log, whatever the remote
\* endpoint does at each step (silence, unrelated or malformed messages,
\* receive errors, a dropped connection).
C17_Terminates ==
    LET t == TradeId(1, 1) IN
    <>(thr[t].pc = "done" /\ cs[t] = "out" /\ Cardinality(LoggedBy(t)) = 1)

\* a trade that heard nothing but unrelated messages and failed receives
\* in its settlement wait has ended with its NoSettlement record
C17_Witness ==
    \E t \in TradeIds :
        /\ thr[t].pc = "done"
        /\ thr[t].ws = "closed"
        /\ LoggedBy(t) # {}
        /\ RecordOf(t).status = "NoSettlement"


\* C18: at most one supervising loop (continuous_runner, or the
\* run_bulk_batch thread of a Start) is active at any time.
C18_OneRunner ==
    Cardinality({r \in RunnerIds : Active(r)}) <= 1

\* the runner thread of the last Start
LastRunner == RunnerId(nStarts)

\* C19: the log and the totals of a run session take records only from the
\* threads of that session: a runner that is appending a marker to the log
\* is the runner of the last Start.
C19_OwnSessionOnly ==
    \A r \in RunnerIds :
        (cs[r] = "stats" /\ lock = r) => r = LastRunner

\* C20: running tells whether a batch is in progress: whenever it is true
\* (the Start handler being over) the runner of the last Start has not
\* ended, so after a single batch has ended running is false again.
C20_RunningMeansActive ==
    (running /\ ui.pc = "idle") => Active(LastRunner)

====
